---- MODULE Spec2Model ----
(***************************************************************************)
(* Model of the two data pipelines of dynasty_hub:                         *)
(*   backfill_transactions.py  - chained walk over a league's seasons,     *)
(*                               one transaction batch per week            *)
(*   ktc_scrape_to_supabase.py - one ranking page fetched, parsed, stored  *)
(* One execution runs one of the two scripts, possibly several times in a  *)
(* row against the same source responses and the same store.               *)
(* Every HTTP request is answered with a status (200 or not); the store    *)
(* either accepts a batch or rejects it by raising from execute().         *)
(***************************************************************************)
EXTENDS Integers, Sequences, FiniteSets, TLC

VARIABLES
    script,            \* which script the process runs: "backfill" or "ktc"
    run,               \* number of the current run of the script (1, 2, ...)
    pc,                \* position of the running script
    exitStatus,        \* "running", "ok" (exit 0) or "error" (uncaught exception)
    clock,             \* time.time() as seen by the current run, in half days
    \* ---- the source the backfill reads (fixed for the whole execution)
    leagues,           \* league id -> [season, previous_league_id]
    badMeta,           \* league whose metadata request answers non-200 (or NoLeague)
    weekResp,          \* week -> response of the transactions endpoint
    \* ---- backfill_transactions.py
    current_id,        \* main(): current_id
    season_year,       \* process_season(): season_year
    prev_id,           \* process_season(): prev_id
    week,              \* process_season(): loop variable
    rows,              \* process_season(): rows of the current week / main(): rows (ktc)
    total_season_tx,   \* process_season(): total_season_tx
    txStore,           \* the transactions table: row -> number of copies stored
    \* ---- observations of the backfill
    visits,            \* league ids process_season was called with, in order
    metaFetched,       \* ids a league-metadata request was issued for
    txFetched,         \* <<id, week>> a transactions request was issued for
    attempted,         \* <<id, week>> whose batch was handed to the store
    rejected,          \* <<id, week>> whose batch the store rejected
    savedRows,         \* rows of the current season in batches the store accepted
    report,            \* the last "Finished <season>" line: [league, total, saved]
    failures,          \* store rejections injected so far
    \* ---- the source and the store of ktc_scrape_to_supabase.py
    doc,               \* the ranking page: its candidate rows
    httpOk,            \* whether the ranking page answers with a success status
    sitePages,         \* non-empty ranking pages the site could serve
    ktcStore,          \* the ktc_values table: set of rows
    \* ---- observations of the ranking run
    ktcFetches,        \* page requests issued in the current run
    upsertCalls,       \* calls of upsert_ktc_values in the current run
    parseOutcome,      \* parse_ktc_table in the current run: "none", "raised", "returned"
    storeAtStart,      \* both tables as they were when the current run started
    firstRun           \* tables, clock and rejections at the end of run 1

vars == <<script, run, pc, exitStatus, clock, leagues, badMeta, weekResp,
          current_id, season_year, prev_id, week, rows, total_season_tx, txStore,
          visits, metaFetched, txFetched, attempted, rejected, savedRows, report,
          failures, doc, httpOk, sitePages, ktcStore, ktcFetches, upsertCalls,
          parseOutcome, storeAtStart, firstRun>>

----------------------------------------------------------------------------
\* Bounds of the model

MaxChain == 3          \* seasons the source knows
MaxRuns == 2           \* consecutive runs of a script
MaxCopies == 2         \* copies of one row counted in the transactions table
MaxStoreFailures == 1  \* store rejections in one execution
MaxOdd == 1            \* irregular candidate rows at the head of the ranking page

----------------------------------------------------------------------------
\* Helpers

Range(s) == {s[i] : i \in DOMAIN s}
Min(a, b) == IF a < b THEN a ELSE b

NoneVal == "<None>"    \* Python's None, for string-valued fields
NoneTs == -1           \* Python's None, for integer-valued fields
NoLeague == "<none>"

\* Python truthiness of an optional string / an optional integer
Truthy(s) == s # NoneVal /\ s # ""
TruthyInt(n) == n # NoneTs /\ n # 0

----------------------------------------------------------------------------
\* The source of the backfill: league metadata and weekly transactions

IdName == <<"A", "B", "C", "D", "E">>
STARTING_LEAGUE_ID == IdName[1]
WEEKS_TO_FETCH == 18
TRANSACTIONS_TABLE == "transactions"

\* visits is recorded up to one entry more than the longest acyclic chain
MaxLog == MaxChain + 1

KnownIds(n) == {IdName[k] : k \in 1..n}
IndexOf(id) == CHOOSE k \in 1..Len(IdName) : IdName[k] = id

\* previous_league_id of the oldest season: absent, the sentinel "0", or
\* (a cyclic chain) the id of a season of the chain itself
ChainEnds(n) == {NoneVal, "0"} \cup KnownIds(n)

\* A chain of n seasons A -> B -> ... whose oldest season refers to `last`
ChainSource(n, last) ==
    [id \in KnownIds(n) |->
        [season |-> 2026 - IndexOf(id),
         previous_league_id |-> IF IndexOf(id) < n THEN IdName[IndexOf(id) + 1]
                                ELSE last]]

\* Two transactions as the source serves them: one with both timestamps and a
\* type, one with neither (keys absent)
TxFull == [transaction_id |-> "t1", type |-> "trade",
           status_updated |-> 86400500, created |-> 86400000]
TxBare == [transaction_id |-> "t2", type |-> NoneVal,
           status_updated |-> NoneTs, created |-> NoneTs]

ActiveWeeks == {1, 2, WEEKS_TO_FETCH}
WeekResponses == {[status |-> 404, body |-> <<>>],
                  [status |-> 200, body |-> <<TxFull, TxBare>>]}
EmptyWeek == [status |-> 200, body |-> <<>>]

NoMeta == [season |-> 0, previous_league_id |-> NoneVal, found |-> FALSE]

\* get_league_details(league_id): None on a non-200 answer, else the JSON body
get_league_details(league_id) ==
    IF league_id \in DOMAIN leagues /\ league_id # badMeta
    THEN [season |-> leagues[league_id].season,
          previous_league_id |-> leagues[league_id].previous_league_id,
          found |-> TRUE]
    ELSE NoMeta

\* fetch_transactions(league_id, week): [] on a non-200 answer, else the JSON body
TransactionsResponse(league_id, w) ==
    IF league_id \in DOMAIN leagues /\ w \in ActiveWeeks THEN weekResp[w]
    ELSE IF league_id \in DOMAIN leagues THEN EmptyWeek
    ELSE [status |-> 404, body |-> <<>>]

fetch_transactions(league_id, w) ==
    LET resp == TransactionsResponse(league_id, w)
    IN  IF resp.status # 200 THEN <<>> ELSE resp.body

----------------------------------------------------------------------------
\* backfill_transactions.py

\* raw_ts = t.get("status_updated") or t.get("created") or int(time.time() * 1000)
RawTs(t) ==
    IF TruthyInt(t.status_updated) THEN t.status_updated
    ELSE IF TruthyInt(t.created) THEN t.created
    ELSE clock * 1000

\* datetime.fromtimestamp(raw_ts / 1000.0).isoformat(): seconds and microseconds
IsoFormat(raw_ts) == [secs |-> raw_ts \div 1000, micros |-> (raw_ts % 1000) * 1000]

\* t.get("type", "unknown")
TxType(t) == IF t.type = NoneVal THEN "unknown" ELSE t.type

\* the row process_season builds for transaction t
TxRow(t) ==
    [league_id |-> current_id, season |-> season_year, week |-> week,
     type |-> TxType(t), executed_at |-> IsoFormat(RawTs(t)), data |-> t]

BuildRows(txs) == [i \in 1..Len(txs) |-> TxRow(txs[i])]

Copies(store, r) == IF r \in DOMAIN store THEN store[r] ELSE 0
Occurrences(rs, r) == Cardinality({i \in DOMAIN rs : rs[i] = r})

\* supabase.table(TRANSACTIONS_TABLE).upsert(rows).execute(), accepted: no
\* conflict key is named and a row carries no key column, so every row is
\* inserted (the count of copies is kept up to MaxCopies)
TxUpsert(store, rs) ==
    [r \in DOMAIN store \cup Range(rs) |->
        Min(MaxCopies, Copies(store, r) + Occurrences(rs, r))]

\* (variant: the sentinel "0" is not recognised)
Continues_NoSentinel(p) == Truthy(p)

\* main(): `if prev_id and prev_id != "0"`
Continues(p) == Truthy(p) /\ p # "0"

\* total_season_tx += len(rows), after upsert_batch returned (accepted or not)
CountBatch(total, rs, accepted) == total + Len(rs)

\* (variant: a rejected batch ends the walk)
AfterBatch_Abort(accepted) == IF accepted THEN "week" ELSE "complete"

\* where process_season goes after upsert_batch returned
AfterBatch(accepted) == "week"

\* (variant: an empty week ends the walk, `break` for `continue`)
AfterEmptyWeek_Break == "complete"

\* `if not txs: continue`: an empty week is skipped and the loop goes on
WeekIsEmpty(txs) == txs = <<>>
AfterEmptyWeek == "week"

Log(log, x) == IF Len(log) < MaxLog THEN Append(log, x) ELSE log

KtcIdle == /\ UNCHANGED <<doc, httpOk, sitePages, ktcStore, ktcFetches,
                          upsertCalls, parseOutcome>>
Source == <<leagues, badMeta, weekResp>>

\* main(): `while current_id:` and the call of process_season up to its week loop
ProcessSeason ==
    /\ script = "backfill" /\ pc = "main"
    /\ IF ~Truthy(current_id)
       THEN /\ pc' = "complete"
            /\ UNCHANGED <<season_year, prev_id, week, total_season_tx, visits,
                           metaFetched, savedRows>>
       ELSE LET meta == get_league_details(current_id)
            IN  /\ visits' = Log(visits, current_id)
                /\ metaFetched' = metaFetched \cup {current_id}
                /\ IF ~meta.found
                   THEN \* process_season returns None: main() breaks
                        /\ pc' = "complete"
                        /\ UNCHANGED <<season_year, prev_id, week,
                                       total_season_tx, savedRows>>
                   ELSE /\ season_year' = meta.season
                        /\ prev_id' = meta.previous_league_id
                        /\ total_season_tx' = 0
                        /\ savedRows' = 0
                        /\ week' = 1
                        /\ pc' = "week"
    /\ UNCHANGED <<script, run, exitStatus, clock, Source, current_id, rows,
                   txStore, txFetched, attempted, rejected, report, failures,
                   storeAtStart, firstRun>>
    /\ KtcIdle

\* one pass of `for week in range(1, WEEKS_TO_FETCH + 1)` up to upsert_batch
FetchWeek ==
    /\ script = "backfill" /\ pc = "week" /\ week <= WEEKS_TO_FETCH
    /\ LET txs == fetch_transactions(current_id, week)
       IN  /\ txFetched' = txFetched \cup {<<current_id, week>>}
           /\ IF WeekIsEmpty(txs)
              THEN /\ week' = week + 1
                   /\ pc' = AfterEmptyWeek
                   /\ UNCHANGED rows
              ELSE /\ rows' = BuildRows(txs)
                   /\ pc' = "upsert"
                   /\ UNCHANGED week
    /\ UNCHANGED <<script, run, exitStatus, clock, Source, current_id,
                   season_year, prev_id, total_season_tx, txStore, visits,
                   metaFetched, attempted, rejected, savedRows, report, failures,
                   storeAtStart, firstRun>>
    /\ KtcIdle

\* upsert_batch(rows) with the store accepting, and the rest of the pass
UpsertAccepted ==
    /\ script = "backfill" /\ pc = "upsert"
    /\ txStore' = TxUpsert(txStore, rows)
    /\ attempted' = attempted \cup {<<current_id, week>>}
    /\ total_season_tx' = CountBatch(total_season_tx, rows, TRUE)
    /\ savedRows' = savedRows + Len(rows)
    /\ week' = week + 1
    /\ rows' = <<>>
    /\ pc' = AfterBatch(TRUE)
    /\ UNCHANGED <<script, run, exitStatus, clock, Source, current_id,
                   season_year, prev_id, visits, metaFetched, txFetched, rejected,
                   report, failures, storeAtStart, firstRun>>
    /\ KtcIdle

\* upsert_batch(rows) with the store rejecting: the exception is caught and
\* printed, and the pass goes on as if the batch had been saved
UpsertRejected ==
    /\ script = "backfill" /\ pc = "upsert"
    /\ failures < MaxStoreFailures
    /\ failures' = failures + 1
    /\ attempted' = attempted \cup {<<current_id, week>>}
    /\ rejected' = rejected \cup {<<current_id, week>>}
    /\ total_season_tx' = CountBatch(total_season_tx, rows, FALSE)
    /\ week' = week + 1
    /\ rows' = <<>>
    /\ pc' = AfterBatch(FALSE)
    /\ UNCHANGED <<script, run, exitStatus, clock, Source, current_id,
                   season_year, prev_id, txStore, visits, metaFetched, txFetched,
                   savedRows, report, storeAtStart, firstRun>>
    /\ KtcIdle

\* the end of process_season ("Finished ...", return prev_id) and main()'s
\* decision to walk back or stop
FinishSeason ==
    /\ script = "backfill" /\ pc = "week" /\ week > WEEKS_TO_FETCH
    /\ report' = [league |-> current_id, total |-> total_season_tx,
                  saved |-> savedRows]
    /\ IF Continues(prev_id)
       THEN /\ current_id' = prev_id
            /\ pc' = "main"
       ELSE /\ pc' = "complete"
            /\ UNCHANGED current_id
    /\ UNCHANGED <<script, run, exitStatus, clock, Source, season_year, prev_id,
                   week, rows, total_season_tx, txStore, visits, metaFetched,
                   txFetched, attempted, rejected, savedRows, failures,
                   storeAtStart, firstRun>>
    /\ KtcIdle

\* print("=== HISTORY COMPLETE ===") and the normal end of the process
HistoryComplete ==
    /\ script = "backfill" /\ pc = "complete"
    /\ pc' = "exited"
    /\ exitStatus' = "ok"
    /\ UNCHANGED <<script, run, clock, Source, current_id, season_year, prev_id,
                   week, rows, total_season_tx, txStore, visits, metaFetched,
                   txFetched, attempted, rejected, savedRows, report, failures,
                   storeAtStart, firstRun>>
    /\ KtcIdle

----------------------------------------------------------------------------
\* ktc_scrape_to_supabase.py: text handling.  A text is a sequence of
\* one-character strings.

KTC_FORMAT == "superflex"
MinRows == 50          \* parse_ktc_table: `if len(results) < 50`
DefaultRank == 999     \* parse_ktc_table: _clean_int(..., default=999)

DigitChar == <<"0", "1", "2", "3", "4", "5", "6", "7", "8", "9">>
Digits == Range(DigitChar)
DigitVal(c) == (CHOOSE k \in 1..Len(DigitChar) : DigitChar[k] = c) - 1
Whitespace == {" ", "\n", "\t"}
UpperChar == <<"A", "F", "J", "K", "M", "N", "R", "U", "W">>
LowerChar == <<"a", "f", "j", "k", "m", "n", "r", "u", "w">>
Letters == Range(UpperChar) \cup Range(LowerChar)

\* c.lower()
LowerOf(c) ==
    IF c \in Range(UpperChar)
    THEN LowerChar[CHOOSE k \in 1..Len(UpperChar) : UpperChar[k] = c]
    ELSE c
Lower(s) == [i \in 1..Len(s) |-> LowerOf(s[i])]

\* s.replace(a, b) for single characters; an empty b removes a
RECURSIVE Replace(_, _, _)
Replace(s, a, b) ==
    IF s = <<>> THEN <<>>
    ELSE (IF s[1] = a THEN b ELSE <<s[1]>>) \o Replace(Tail(s), a, b)

RECURSIVE LStrip(_, _)
LStrip(s, chars) ==
    IF s # <<>> /\ s[1] \in chars THEN LStrip(Tail(s), chars) ELSE s

RECURSIVE RStrip(_, _)
RStrip(s, chars) ==
    IF s # <<>> /\ s[Len(s)] \in chars
    THEN RStrip(SubSeq(s, 1, Len(s) - 1), chars) ELSE s

\* s.strip()
Strip(s) == RStrip(LStrip(s, Whitespace), Whitespace)

RECURSIVE DigitsValue(_)
DigitsValue(s) ==
    IF s = <<>> THEN 0
    ELSE DigitsValue(SubSeq(s, 1, Len(s) - 1)) * 10 + DigitVal(s[Len(s)])

\* int(s): an optional sign and one or more digits, blanks around them ignored;
\* anything else is a ValueError
Unsigned(s) == IF s # <<>> /\ s[1] \in {"+", "-"} THEN Tail(s) ELSE s
IntParses(s) ==
    LET d == Unsigned(Strip(s))
    IN  d # <<>> /\ \A i \in 1..Len(d) : d[i] \in Digits
IntOf(s) ==
    LET t == Strip(s)
    IN  IF t[1] = "-" THEN 0 - DigitsValue(Unsigned(t)) ELSE DigitsValue(Unsigned(t))

NoText == <<"<None>">>   \* Python's None where a text is expected

\* _clean_int(text, default)
_clean_int(text, default) ==
    IF text = NoText \/ text = <<>> THEN default
    ELSE LET t == Strip(Replace(text, ",", <<>>))
         IN  IF IntParses(t) THEN IntOf(t) ELSE default

\* "".join(ch for ch in position_raw if ch.isalpha()) or position_raw
AlphaOnly(s) == SelectSeq(s, LAMBDA c : c \in Letters)
PositionOf(position_raw) ==
    IF AlphaOnly(position_raw) # <<>> THEN AlphaOnly(position_raw) ELSE position_raw

\* href.rstrip("/").split("/")[-1] if "/" in href else None
RECURSIVE LastSegment(_)
LastSegment(s) ==
    IF s = <<>> \/ s[Len(s)] = "/" THEN <<>>
    ELSE Append(LastSegment(SubSeq(s, 1, Len(s) - 1)), s[Len(s)])
SlugOf(href) ==
    IF "/" \in Range(href) THEN LastSegment(RStrip(href, {"/"})) ELSE <<>>

\* ktc_player_id: the slug, or name_position with blanks replaced, lower-cased
PlayerId(href, player_name, position) ==
    LET slug == SlugOf(href)
    IN  Lower(IF slug # <<>> THEN slug
              ELSE Replace(player_name \o <<"_">> \o position, " ", <<"-">>))

\* (variant: only negative values are dropped)
ValueRejected_ZeroKept(ktc_value) == ktc_value < 0

\* the integrity gate of a row: `if ktc_value <= 0: continue`
ValueRejected(ktc_value) == ktc_value <= 0

\* (variant: the threshold itself is refused)
TooFewRows_OffByOne(n) == n <= MinRows

\* the plausibility gate of a document: `if len(results) < 50: raise`
TooFewRows(n) == n < MinRows

\* date.today().isoformat()
Today == [day |-> clock \div 2]

\* A candidate row of the page, as the selectors see it: name is the anchor's
\* text and href its target (anchor FALSE: no name-bearing anchor); team,
\* position, value, rank are the texts of those elements, NoText when the
\* element is missing.
RowAccepted(row) ==
    /\ row.anchor
    /\ Strip(row.name) # <<>>
    /\ ~ValueRejected(_clean_int(row.value, 0))

\* the record parse_ktc_table appends for an accepted row
KtcRecord(row) ==
    LET player_name == Strip(row.name)
        position == PositionOf(IF row.position = NoText THEN <<"U", "N", "K">>
                               ELSE Strip(row.position))
    IN  [ktc_player_id |-> PlayerId(row.href, player_name, position),
         player_name |-> player_name,
         position |-> position,
         nfl_team |-> IF row.team = NoText THEN <<"F", "A">> ELSE Strip(row.team),
         format |-> KTC_FORMAT,
         ktc_rank |-> _clean_int(row.rank, DefaultRank),
         ktc_value |-> _clean_int(row.value, 0),
         as_of_date |-> Today]

\* the loop of parse_ktc_table over the candidate rows
RECURSIVE ParseRows(_)
ParseRows(player_rows) ==
    IF player_rows = <<>> THEN <<>>
    ELSE LET row == player_rows[1]
         IN  (IF RowAccepted(row) THEN <<KtcRecord(row)>> ELSE <<>>)
             \o ParseRows(Tail(player_rows))

\* the conflict key of upsert_ktc_values
KtcKey(r) == <<r.ktc_player_id, r.format, r.as_of_date>>

\* .upsert(rows, on_conflict=[...]).execute(), accepted: a row replaces the
\* stored row of the same key (the last one of the batch wins)
KtcUpsert(store, rs) ==
    LET keys == {KtcKey(rs[i]) : i \in DOMAIN rs}
        lastOf(k) == rs[CHOOSE i \in DOMAIN rs :
                          /\ KtcKey(rs[i]) = k
                          /\ \A j \in DOMAIN rs : KtcKey(rs[j]) = k => j <= i]
    IN  {r \in store : KtcKey(r) \notin keys} \cup {lastOf(k) : k \in keys}

----------------------------------------------------------------------------
\* The ranking page

WellFormed ==
    [anchor |-> TRUE, name |-> <<"A", "J">>,
     href |-> <<"/", "r", "/", "A", "J", "-", "1">>,
     team |-> <<"M", "N">>, position |-> <<"W", "R", "1">>,
     value |-> <<"1", ",", "2", "3", "4">>, rank |-> <<"1">>]

\* texts found in the value element
ValueTexts ==
    {NoText, <<>>, <<"n", "/", "a">>, <<"0">>, <<"0", ",", "0">>, <<"-", "5">>,
     <<" ", "7", "\n">>, <<"1", " ", "2">>, <<",">>, <<"1", ",", "2", "3", "4">>}

\* an ad slot, a row whose anchor has no text, and a row of the fallback
\* markup with no slug, team, position or rank
Decorative == [WellFormed EXCEPT !.anchor = FALSE]
Nameless == [WellFormed EXCEPT !.name = <<" ">>]
Sparse ==
    [anchor |-> TRUE, name |-> <<"R", " ", "W">>, href |-> <<>>,
     team |-> NoText, position |-> NoText, value |-> <<"9", "0">>,
     rank |-> NoText]

CandidateRows ==
    {Decorative, Nameless, Sparse}
        \cup {[WellFormed EXCEPT !.value = v] : v \in ValueTexts}

\* the i-th of the regular rows of the page, i < 100
TwoDigits(i) == <<DigitChar[(i \div 10) + 1], DigitChar[(i % 10) + 1]>>
RegularRow(i) ==
    [anchor |-> TRUE, name |-> <<"N">> \o TwoDigits(i),
     href |-> <<"/", "r", "/", "n">> \o TwoDigits(i) \o <<"/">>,
     team |-> <<"M", "N">>, position |-> <<"R", "W">>,
     value |-> <<"9", ",", "9">> \o TwoDigits(99 - i), rank |-> TwoDigits(i)]

\* pages: up to MaxOdd rows of CandidateRows, then n regular rows
OddRows == UNION {[1..k -> CandidateRows] : k \in 0..MaxOdd}
RegularCounts == {0} \cup ((MinRows - 2)..(MinRows + 1))
Page(odd, n) == odd \o [i \in 1..n |-> RegularRow(i)]
PageCounts == {1, 2, 3}

----------------------------------------------------------------------------
\* ktc_scrape_to_supabase.py: main()

BackfillIdle ==
    UNCHANGED <<Source, current_id, season_year, prev_id, week, total_season_tx,
                txStore, visits, metaFetched, txFetched, attempted, savedRows,
                report>>
KtcSource == <<doc, httpOk, sitePages>>

\* (variant: main() fetches again instead of parsing)
AfterFetch_Again == "fetch"

\* where main() goes after fetch_ktc_html returned
AfterFetch == "parse"

\* fetch_ktc_html(): one GET of KTC_RANKINGS_URL; raise_for_status() ends the
\* run on a non-success answer
FetchKtcHtml ==
    /\ script = "ktc" /\ pc = "fetch"
    /\ ktcFetches' = Min(MaxLog, ktcFetches + 1)
    /\ IF httpOk
       THEN pc' = AfterFetch /\ UNCHANGED exitStatus
       ELSE pc' = "exited" /\ exitStatus' = "error"
    /\ UNCHANGED <<script, run, clock, rows, ktcStore, KtcSource, upsertCalls,
                   parseOutcome, rejected, failures, storeAtStart, firstRun>>
    /\ BackfillIdle

\* parse_ktc_table(html): the rows, or RuntimeError when they are too few
ParseKtcTable ==
    /\ script = "ktc" /\ pc = "parse"
    /\ LET results == ParseRows(doc)
       IN  IF TooFewRows(Len(results))
           THEN /\ parseOutcome' = "raised"
                /\ pc' = "exited" /\ exitStatus' = "error"
                /\ UNCHANGED rows
           ELSE /\ parseOutcome' = "returned"
                /\ rows' = results
                /\ pc' = "upsert"
                /\ UNCHANGED exitStatus
    /\ UNCHANGED <<script, run, clock, ktcStore, KtcSource, ktcFetches,
                   upsertCalls, rejected, failures, storeAtStart, firstRun>>
    /\ BackfillIdle

\* upsert_ktc_values(rows) with the store accepting; main() returns
UpsertKtcAccepted ==
    /\ script = "ktc" /\ pc = "upsert"
    /\ upsertCalls' = upsertCalls + 1
    /\ ktcStore' = IF rows = <<>> THEN ktcStore ELSE KtcUpsert(ktcStore, rows)
    /\ pc' = "exited" /\ exitStatus' = "ok"
    /\ UNCHANGED <<script, run, clock, rows, KtcSource, ktcFetches, parseOutcome,
                   rejected, failures, storeAtStart, firstRun>>
    /\ BackfillIdle

\* upsert_ktc_values(rows) with the store rejecting: execute() raises, nothing
\* catches it, and the process ends with the exception
UpsertKtcRejected ==
    /\ script = "ktc" /\ pc = "upsert" /\ rows # <<>>
    /\ failures < MaxStoreFailures
    /\ failures' = failures + 1
    /\ rejected' = rejected \cup {<<"ktc_values", run>>}
    /\ upsertCalls' = upsertCalls + 1
    /\ pc' = "exited" /\ exitStatus' = "error"
    /\ UNCHANGED <<script, run, clock, rows, ktcStore, KtcSource, ktcFetches,
                   parseOutcome, storeAtStart, firstRun>>
    /\ BackfillIdle

----------------------------------------------------------------------------
\* Runs of a script

Tables == [tx |-> txStore, ktc |-> ktcStore]

\* the same script is started again: its variables are fresh, the tables and
\* the source are as they were, and time has passed
NextRun ==
    /\ pc = "exited" /\ run < MaxRuns
    /\ run' = run + 1
    /\ clock' \in {clock + 1, clock + 2}   \* later the same day, or a day later
    /\ pc' = IF script = "backfill" THEN "main" ELSE "fetch"
    /\ exitStatus' = "running"
    /\ current_id' = STARTING_LEAGUE_ID
    /\ season_year' = 0 /\ prev_id' = NoneVal /\ week' = 0
    /\ rows' = <<>> /\ total_season_tx' = 0
    /\ visits' = <<>> /\ metaFetched' = {} /\ txFetched' = {}
    /\ attempted' = {} /\ rejected' = {} /\ savedRows' = 0
    /\ report' = [league |-> NoLeague, total |-> 0, saved |-> 0]
    /\ ktcFetches' = 0 /\ upsertCalls' = 0 /\ parseOutcome' = "none"
    /\ storeAtStart' = Tables
    /\ firstRun' = IF run = 1
                   THEN [tables |-> Tables, clock |-> clock, failures |-> failures,
                         exit |-> exitStatus]
                   ELSE firstRun
    /\ UNCHANGED <<script, Source, txStore, failures, doc, httpOk, sitePages,
                   ktcStore>>

----------------------------------------------------------------------------
\* Initial states: the script, and the source it will read

EmptyTx == [r \in {} |-> 0]

InitCommon ==
    /\ run = 1 /\ exitStatus = "running" /\ clock = 2
    /\ current_id = STARTING_LEAGUE_ID
    /\ season_year = 0 /\ prev_id = NoneVal /\ week = 0
    /\ rows = <<>> /\ total_season_tx = 0
    /\ txStore = EmptyTx /\ ktcStore = {}
    /\ visits = <<>> /\ metaFetched = {} /\ txFetched = {}
    /\ attempted = {} /\ rejected = {} /\ savedRows = 0
    /\ report = [league |-> NoLeague, total |-> 0, saved |-> 0]
    /\ failures = 0
    /\ ktcFetches = 0 /\ upsertCalls = 0 /\ parseOutcome = "none"
    /\ storeAtStart = [tx |-> EmptyTx, ktc |-> {}]
    /\ firstRun = [tables |-> [tx |-> EmptyTx, ktc |-> {}], clock |-> 0,
                   failures |-> 0, exit |-> "running"]

InitBackfill ==
    /\ script = "backfill" /\ pc = "main"
    /\ \E n \in 1..MaxChain : \E last \in ChainEnds(n) :
          /\ leagues = ChainSource(n, last)
          /\ badMeta \in {NoLeague} \cup KnownIds(n)
    /\ weekResp \in [ActiveWeeks -> WeekResponses]
    /\ doc = <<>> /\ httpOk = TRUE /\ sitePages = 0

InitKtc ==
    /\ script = "ktc" /\ pc = "fetch"
    /\ \E odd \in OddRows : \E n \in RegularCounts : doc = Page(odd, n)
    /\ httpOk \in BOOLEAN
    /\ sitePages \in PageCounts
    /\ leagues = ChainSource(1, NoneVal) /\ badMeta = NoLeague
    /\ weekResp = [w \in ActiveWeeks |-> EmptyWeek]

Init == InitCommon /\ (InitBackfill \/ InitKtc)

Next ==
    \/ ProcessSeason
    \/ FetchWeek
    \/ UpsertAccepted
    \/ UpsertRejected
    \/ FinishSeason
    \/ HistoryComplete
    \/ FetchKtcHtml
    \/ ParseKtcTable
    \/ UpsertKtcAccepted
    \/ UpsertKtcRejected

\* one run of a script
Spec == Init /\ [][Next]_vars

\* one run of the backfill, scheduled: the Python process is single-threaded
\* and blocking, so whenever the script can take a step it takes it
BackfillStep ==
    \/ ProcessSeason \/ FetchWeek \/ UpsertAccepted \/ UpsertRejected
    \/ FinishSeason \/ HistoryComplete
FairSpec == Spec /\ WF_vars(BackfillStep)

\* runs of a script in a row, on the same source and tables
NextRerun == Next \/ NextRun
SpecRerun == Init /\ [][NextRerun]_vars

----------------------------------------------------------------------------
\* Properties

ChainLen == Cardinality(DOMAIN leagues)
ChainSeq == [k \in 1..ChainLen |-> IdName[k]]
ChainEnd == leagues[IdName[ChainLen]].previous_league_id
Acyclic == ChainEnd \in {NoneVal, "0"}
Finished == pc \in {"complete", "exited"}
Weeks == 1..WEEKS_TO_FETCH

\* the seasons the walk can reach: those before the first one whose metadata
\* request fails
Walkable == {IdName[k] : k \in {j \in 1..ChainLen :
                                   \A i \in 1..j : IdName[i] # badMeta}}
\* batch c comes after batch b in a walk that ends
Later(b, c) == \/ c[1] = b[1] /\ c[2] > b[2]
               \/ IndexOf(c[1]) > IndexOf(b[1])
RowsOf(id, w) == {r \in DOMAIN txStore : r.league_id = id /\ r.week = w}

\* C1: over an acyclic chain A -> B -> C -> (absent or "0") whose metadata
\* requests all succeed, process_season is called once for each season, in
\* chain order, and then the walk stops; no metadata or transaction request
\* is issued for any other identifier.
C1_ChainedWalk ==
    (script = "backfill" /\ Acyclic /\ badMeta = NoLeague) =>
        /\ Len(visits) <= ChainLen
        /\ visits = SubSeq(ChainSeq, 1, Len(visits))
        /\ metaFetched = Range(visits)
        /\ {f[1] : f \in txFetched} \subseteq Range(visits)
        /\ Finished => visits = ChainSeq

C1_Witness ==
    /\ script = "backfill" /\ pc = "exited" /\ badMeta = NoLeague
    /\ ChainLen = 3 /\ ChainEnd = "0"
    /\ visits = <<"A", "B", "C">>
    /\ metaFetched = {"A", "B", "C"}

\* C2: whatever predecessor references the source returns, the walk
\* eventually ends (main() reaches "HISTORY COMPLETE").
C2_WalkTerminates == <>(script = "backfill" => Finished)

\* C3: a rejected batch stops nothing: every week after it in the same
\* season, and every week of every season the walk goes on to, is fetched,
\* and its batch, when not empty, is handed to the store.
C3_BatchIsolation ==
    (script = "backfill" /\ Finished) =>
        \A b \in rejected : \A id \in Walkable : \A w \in Weeks :
            Later(b, <<id, w>>) =>
                /\ <<id, w>> \in txFetched
                /\ fetch_transactions(id, w) # <<>> => <<id, w>> \in attempted

C3_Witness ==
    /\ script = "backfill" /\ pc = "exited"
    /\ rejected = {<<"A", 1>>}
    /\ {<<"A", 2>>, <<"A", WEEKS_TO_FETCH>>, <<"B", 1>>} \subseteq attempted
    /\ RowsOf("A", 1) = {} /\ RowsOf("A", 2) # {} /\ RowsOf("B", 1) # {}

\* C4: the total a season reports equals the number of rows in the batches
\* the store accepted.
C4_TotalCountsSavedRows == report.total = report.saved

\* C5: parse_ktc_table raises exactly when fewer than 50 rows were accepted;
\* in a run where it raises, upsert_ktc_values is not called, the table is
\* not written and the run ends in failure.
AcceptedCount == Cardinality({i \in DOMAIN doc : RowAccepted(doc[i])})

C5_PlausibilityGate ==
    script = "ktc" =>
        /\ parseOutcome = "raised" => AcceptedCount < 50
        /\ parseOutcome = "returned" => AcceptedCount >= 50 /\ Len(rows) = AcceptedCount
        /\ parseOutcome = "raised" =>
              /\ upsertCalls = 0
              /\ ktcStore = storeAtStart.ktc
              /\ pc = "exited" /\ exitStatus = "error"

C5_Witness ==
    /\ script = "ktc" /\ parseOutcome = "raised" /\ AcceptedCount = 49
    /\ Len(doc) = 50 /\ pc = "exited" /\ exitStatus = "error"

\* C6: running a script twice against the same source responses leaves the
\* tables as one run left them: no duplicate rows, the same field values.
C6_Idempotent ==
    (/\ run = 2 /\ pc = "exited" /\ exitStatus = "ok"
     /\ firstRun.exit = "ok" /\ failures = 0
     /\ script = "ktc" => Today = [day |-> firstRun.clock \div 2]) =>
        /\ Tables = firstRun.tables
        /\ \A r \in DOMAIN txStore : txStore[r] = 1

\* C7: a week whose transactions request answers non-200 is an empty week: no
\* rows, no store call for it; the weeks after it up to 18 and the seasons
\* the walk goes on to are still fetched.
FailedWeek(id, w) == TransactionsResponse(id, w).status # 200

C7_FailedWeekAbsorbed ==
    script = "backfill" =>
        /\ \A f \in txFetched :
              FailedWeek(f[1], f[2]) => f \notin attempted /\ RowsOf(f[1], f[2]) = {}
        /\ Finished =>
              \A id \in Walkable : \A w \in Weeks :
                  FailedWeek(id, w) =>
                      /\ <<id, w>> \in txFetched
                      /\ \A id2 \in Walkable : \A w2 \in Weeks :
                            Later(<<id, w>>, <<id2, w2>>) => <<id2, w2>> \in txFetched

C7_Witness ==
    /\ script = "backfill" /\ pc = "exited" /\ ChainLen >= 2 /\ badMeta = NoLeague
    /\ FailedWeek("A", 1) /\ <<"A", 1>> \in txFetched /\ <<"A", 1>> \notin attempted
    /\ <<"A", 2>> \in attempted /\ RowsOf("A", 2) # {}
    /\ <<"A", WEEKS_TO_FETCH>> \in txFetched /\ <<"B", 1>> \in txFetched

\* C8: in both scripts a batch the store rejects is logged and the run still
\* ends normally; a rejection never ends the process in failure.
C8_RejectionNeverAborts == rejected # {} => exitStatus # "error"

\* C9: every record parse_ktc_table yields, and every record in the table,
\* has a value above 0; a candidate row whose value is missing, not a number,
\* or 0 or less is dropped.
Positive(r) == r.ktc_value > 0

C9_PositiveValues ==
    script = "ktc" =>
        /\ \A i \in DOMAIN rows : Positive(rows[i])
        /\ \A r \in ktcStore : Positive(r)
        /\ parseOutcome = "returned" =>
              Len(rows) <= Cardinality({i \in DOMAIN doc :
                                          _clean_int(doc[i].value, 0) > 0})

C9_Witness ==
    /\ script = "ktc" /\ pc = "exited" /\ exitStatus = "ok"
    /\ doc[1].anchor /\ doc[1].name = WellFormed.name /\ doc[1].value = <<"0">>
    /\ Len(rows) = Len(doc) - 1
    /\ Cardinality(ktcStore) = Len(rows)

====
